---- MODULE Spec2Model ----
(***************************************************************************)
(* Meal tracker: the dual-backend persistence layer.                       *)
(*   db.idb.ts        Local Store Adapter (IndexedDB object stores)        *)
(*   db.firestore.ts  Cloud Store Adapter (one namespace per uid)          *)
(*   db.ts            Backend Router (module variable _uid)                *)
(*   merge.ts         mergeLocalDataToFirestore (one-time migration)       *)
(*   AuthContext.tsx  AuthProvider (onAuthStateChanged callback, signOut)  *)
(* Asynchronous operations are split at their awaits: a routed operation   *)
(* is issued (the router picks the adapter, the cloud adapter draws its    *)
(* document id) and later settles; the migration is a process of its own.  *)
(***************************************************************************)
EXTENDS Integers, Sequences, FiniteSets, TLC

VARIABLES
    uid,        \* db.ts: let _uid: string | null
    idb,        \* the IndexedDB database 'meal-tracker-db' (stores + key generators)
    fsdb,       \* Firestore: /users/{uid}/{meals,favourites,weights,recipes,settings}
    now,        \* Date.now()
    req,        \* the routed operation in flight (issued, not yet settled)
    res,        \* what the last settled routed operation did and returned
    mg,         \* the running mergeLocalDataToFirestore call / auth callback
    uploads,    \* migration writes issued and not yet settled
    user,       \* AuthProvider state: user
    loading,    \* AuthProvider state: loading
    ops,        \* number of calls and auth events so far
    setCalls,   \* how many times setCurrentUser has been called (for the properties)
    transitions,\* how many auth state changes have been delivered (for the properties)
    ai,         \* ai-parser.ts: the call in flight (processInput, getMealSuggestion, ...)
    ui          \* MealInput / useMeals: the handler in flight, todayMeals, messages

dbvars == <<uid, idb, fsdb, now, req, res, mg, uploads, user, loading, ops>>
vars == <<uid, idb, fsdb, now, req, res, mg, uploads, user, loading, ops,
          setCalls, transitions, ai, ui>>

----------------------------------------------------------------------------
\* Bounds of the model.
MaxOps == 2         \* routed calls, auth events and signOut calls per behaviour
MaxClock == 2       \* Date.now() ranges over 1..MaxClock
RandSpan == 2       \* Math.floor(Math.random() * 1000) scaled down to 0..RandSpan-1
MaxChat == 3        \* messages in the chat; a send adds three at most

Uids == {"A", "B"}
NoUser == "null"
Cols == {"meals", "favourites", "weights", "recipes"}
ColOrder == <<"meals", "favourites", "weights", "recipes">>
Named == {"favourites", "recipes"}
Updatable == {"meals", "favourites", "recipes"}
NoReq == [op |-> "none"]
Empty == <<>>

\* db.idb.ts DEFAULT_SETTINGS, restricted to two of its twelve keys.
DEFAULT_SETTINGS == [apiKey |-> "", dailyCalories |-> 2000]
SettingKeys == DOMAIN DEFAULT_SETTINGS
SettingInputs == [apiKey |-> {"", "key"}, dailyCalories |-> {2000, 1800}]

\* Records handed to the add operations (no id: Omit<T, 'id'>).
MealInputs ==
    { [date |-> "d1", timestamp |-> 1, content |-> "dal",
       parsed |-> <<[food |-> "dal", calories |-> 200, protein |-> 12,
                     fat |-> 5, carbs |-> 30, fiber |-> 8]>>,
       totalCalories |-> 200],
      [date |-> "d2", timestamp |-> 2, content |-> "tea",
       parsed |-> <<>>, totalCalories |-> 0] }
FavInputs ==
    { [name |-> "oats", content |-> "oats", parsed |-> <<>>,
       totalCalories |-> 150, createdAt |-> 1],
      [name |-> "oats", content |-> "big oats", parsed |-> <<>>,
       totalCalories |-> 300, createdAt |-> 2],
      [name |-> "eggs", content |-> "eggs", parsed |-> <<>>,
       totalCalories |-> 140, createdAt |-> 1] }
WeightInputs == { [date |-> "d1", weight |-> 70, timestamp |-> 1] }
RecipeInputs ==
    { [name |-> "stew", ingredients |-> <<>>, totalWeight |-> 300,
       totalCalories |-> 600, totalProtein |-> 40, totalFat |-> 0,
       totalCarbs |-> 0, totalFiber |-> 0, createdAt |-> 1],
      [name |-> "soup", ingredients |-> <<>>, totalWeight |-> 200,
       totalCalories |-> 100, totalProtein |-> 4, totalFat |-> 0,
       totalCarbs |-> 0, totalFiber |-> 0, createdAt |-> 1] }
Inputs(col) ==
    CASE col = "meals" -> MealInputs
      [] col = "favourites" -> FavInputs
      [] col = "weights" -> WeightInputs
      [] col = "recipes" -> RecipeInputs

\* Keys a caller may hold: local auto-increment keys and cloud ids both fall here.
IdInputs == 1..(MaxClock + RandSpan - 1)

----------------------------------------------------------------------------
\* Record helpers.
WithId(rec, id) == [f \in (DOMAIN rec) \cup {"id"} |-> IF f = "id" THEN id ELSE rec[f]]
Rest(rec) == [f \in (DOMAIN rec) \ {"id"} |-> rec[f]]
Put(store, key, rec) == [k \in (DOMAIN store) \cup {key} |-> IF k = key THEN rec ELSE store[k]]
Remove(store, key) == [k \in (DOMAIN store) \ {key} |-> store[k]]

Min(S) == CHOOSE x \in S : \A y \in S : x <= y
RECURSIVE SeqOf(_)
\* The records of a store in ascending key order (IDBObjectStore.getAll).
SeqOf(store) ==
    IF DOMAIN store = {} THEN <<>>
    ELSE LET k == Min(DOMAIN store) IN <<store[k]>> \o SeqOf(Remove(store, k))

----------------------------------------------------------------------------
\* Local Store Adapter (db.idb.ts).  An operation returns the database after
\* it, its outcome and the value it resolves with.
EmptyIdb ==
    [meals |-> Empty, favourites |-> Empty, weights |-> Empty, recipes |-> Empty,
     settings |-> Empty, gen |-> [c \in Cols |-> 1]]

Ret(db, status, value) == [db |-> db, status |-> status, value |-> value]

byNameConflict_notUnique(db, col, rec, key) == FALSE

\* initDB: favourites and recipes carry the index 'by-name' with unique: true.
\* A write of rec under key breaks it when another key holds the same name.
byNameConflict(db, col, rec, key) ==
    /\ col \in Named
    /\ \E k \in (DOMAIN db[col]) \ {key} : db[col][k].name = rec.name

\* db.add(store, value) on a store with keyPath 'id', autoIncrement: true.
idb_add(db, col, rec) ==
    LET key == db.gen[col] IN
    IF byNameConflict(db, col, rec, key)
    THEN Ret(db, "ConstraintError", 0)
    ELSE Ret([db EXCEPT ![col] = Put(@, key, WithId(rec, key)),
                        !.gen[col] = key + 1], "ok", key)

\* db.put(store, value): insert or replace at value.id; an explicit key at or
\* above the key generator moves the generator past it.
idb_put(db, col, rec) ==
    LET key == rec.id IN
    IF byNameConflict(db, col, rec, key)
    THEN Ret(db, "ConstraintError", 0)
    ELSE Ret([db EXCEPT ![col] = Put(@, key, rec),
                        !.gen[col] = IF key >= @ THEN key + 1 ELSE @], "ok", key)

idb_delete_strict(db, col, key) ==
    IF key \in DOMAIN db[col] THEN Ret([db EXCEPT ![col] = Remove(@, key)], "ok", 0)
    ELSE Ret(db, "NotFoundError", 0)

\* db.delete(store, key): deleting a key that is not there resolves all the same.
idb_delete(db, col, key) == Ret([db EXCEPT ![col] = Remove(@, key)], "ok", 0)

idb_getAll(db, col) == Ret(db, "ok", SeqOf(db[col]))

idb_getMealsByDate(db, date) ==
    Ret(db, "ok", SelectSeq(SeqOf(db.meals), LAMBDA m : m.date = date))

idb_settingsOf(db) ==
    [k \in SettingKeys |-> IF k \in DOMAIN db.settings THEN db.settings[k]
                           ELSE DEFAULT_SETTINGS[k]]

idb_getSettings(db) == Ret(db, "ok", idb_settingsOf(db))

idb_saveSetting(db, key, value) ==
    Ret([db EXCEPT !.settings = Put(@, key, value)], "ok", key)

idb_resetAllData(db) ==
    Ret([db EXCEPT !.meals = Empty, !.settings = Empty, !.favourites = Empty,
                   !.weights = Empty, !.recipes = Empty], "ok", 0)

----------------------------------------------------------------------------
\* Cloud Store Adapter (db.firestore.ts).  cl is the whole cloud store; u is
\* the namespace /users/{u}.
EmptyNs ==
    [meals |-> Empty, favourites |-> Empty, weights |-> Empty, recipes |-> Empty,
     settings |-> [exists |-> FALSE, data |-> Empty]]

\* genId: Date.now() + Math.floor(Math.random() * 1000)
genId(t, r) == t + r

\* setDoc(doc(firestore, 'users', u, col, String(id)), data)
setDoc(cl, u, col, id, data) == [cl EXCEPT ![u][col] = Put(@, id, data)]
deleteDoc(cl, u, col, id) == [cl EXCEPT ![u][col] = Remove(@, id)]

fs_add(cl, u, col, rec, id) == Ret(setDoc(cl, u, col, id, WithId(rec, id)), "ok", id)

fs_update(cl, u, col, rec) == Ret(setDoc(cl, u, col, rec.id, rec), "ok", 0)

fs_delete(cl, u, col, id) == Ret(deleteDoc(cl, u, col, id), "ok", 0)

fs_getAll(cl, u, col) == Ret(cl, "ok", SeqOf(cl[u][col]))

fs_getMealsByDate_byContent(cl, u, date) ==
    Ret(cl, "ok", SelectSeq(SeqOf(cl[u].meals), LAMBDA m : m.content = date))

\* query(collection(.., 'meals'), where('date', '==', date))
fs_getMealsByDate(cl, u, date) ==
    Ret(cl, "ok", SelectSeq(SeqOf(cl[u].meals), LAMBDA m : m.date = date))

fs_settingsOf(cl, u) ==
    IF ~cl[u].settings.exists THEN DEFAULT_SETTINGS
    ELSE [k \in SettingKeys |-> IF k \in DOMAIN cl[u].settings.data
                                THEN cl[u].settings.data[k]
                                ELSE DEFAULT_SETTINGS[k]]

fs_getSettings(cl, u) == Ret(cl, "ok", fs_settingsOf(cl, u))

fs_saveSetting_noMerge(cl, u, key, value) ==
    Ret([cl EXCEPT ![u].settings = [exists |-> TRUE, data |-> Put(Empty, key, value)]],
        "ok", 0)

\* setDoc(doc(.., 'settings', 'data'), {[key]: value}, {merge: true})
fs_saveSetting(cl, u, key, value) ==
    Ret([cl EXCEPT ![u].settings = [exists |-> TRUE, data |-> Put(@.data, key, value)]],
        "ok", 0)

fs_resetAllData(cl, u) == Ret([cl EXCEPT ![u] = EmptyNs], "ok", 0)

----------------------------------------------------------------------------
\* Backend Router (db.ts).  Every exported operation is
\*     _uid ? fs.op(_uid, ...) : idb.op(...)
\* evaluated when the operation is called; the adapter call then runs on its own.
db_route_localOnly(u) == [be |-> "idb", ns |-> NoUser]

db_route(u) ==
    IF u # NoUser THEN [be |-> "fs", ns |-> u] ELSE [be |-> "idb", ns |-> NoUser]

db_resetAllData_cloudOnly(u) ==
    IF u # NoUser THEN [be |-> "fs", ns |-> u] ELSE [be |-> "idb", ns |-> NoUser]

\* resetAllData: both backends when signed in, the local store otherwise.
db_resetAllData(u) ==
    IF u # NoUser THEN [be |-> "both", ns |-> u] ELSE [be |-> "idb", ns |-> NoUser]

Local == <<"local", NoUser>>
Cloud(u) == <<"cloud", u>>

idbRun(r, db) ==
    CASE r.op = "add" -> idb_add(db, r.col, r.arg)
      [] r.op = "update" -> idb_put(db, r.col, r.arg)
      [] r.op = "delete" -> idb_delete(db, r.col, r.arg)
      [] r.op = "getAll" -> idb_getAll(db, r.col)
      [] r.op = "getMealsByDate" -> idb_getMealsByDate(db, r.arg)
      [] r.op = "getSettings" -> idb_getSettings(db)
      [] r.op = "saveSetting" -> idb_saveSetting(db, r.col, r.arg)
      [] r.op = "resetAllData" -> idb_resetAllData(db)

fsRun(r, cl) ==
    CASE r.op = "add" -> fs_add(cl, r.ns, r.col, r.arg, r.id)
      [] r.op = "update" -> fs_update(cl, r.ns, r.col, r.arg)
      [] r.op = "delete" -> fs_delete(cl, r.ns, r.col, r.arg)
      [] r.op = "getAll" -> fs_getAll(cl, r.ns, r.col)
      [] r.op = "getMealsByDate" -> fs_getMealsByDate(cl, r.ns, r.arg)
      [] r.op = "getSettings" -> fs_getSettings(cl, r.ns)
      [] r.op = "saveSetting" -> fs_saveSetting(cl, r.ns, r.col, r.arg)
      [] r.op = "resetAllData" -> fs_resetAllData(cl, r.ns)

\* The adapter call(s) a routed request makes, and which stores they reach.
Run(r, db, cl) ==
    CASE r.be = "idb" ->
           LET o == idbRun(r, db) IN
           [db |-> o.db, cl |-> cl, status |-> o.status, touched |-> {Local}]
      [] r.be = "fs" ->
           LET o == fsRun(r, cl) IN
           [db |-> db, cl |-> o.db, status |-> o.status, touched |-> {Cloud(r.ns)}]
      [] r.be = "both" ->
           [db |-> idbRun(r, db).db, cl |-> fsRun(r, cl).db, status |-> "ok",
            touched |-> {Local, Cloud(r.ns)}]

\* The same when the cloud call rejects: the cloud store is not changed; the
\* local half of a signed-in resetAllData still runs (Promise.all does not cancel).
RunFailed(r, db, cl) ==
    [db |-> IF r.be = "both" THEN idbRun(r, db).db ELSE db, cl |-> cl,
     status |-> "error",
     touched |-> IF r.be = "both" THEN {Local, Cloud(r.ns)} ELSE {Cloud(r.ns)}]

Request(route, op, col, arg, id, issuedAs) ==
    [op |-> op, be |-> route.be, ns |-> route.ns, col |-> col, arg |-> arg,
     id |-> id, issuedAs |-> issuedAs]

NoRes == [op |-> "none", col |-> "", issuedAs |-> NoUser,
          status |-> "none", touched |-> {}]

----------------------------------------------------------------------------
\* mg: where the auth callback and the migration it awaits stand.  before (the
\* namespace as the existence check saw it) and migrated (the uids a run has
\* fully copied to) are kept for the properties only.
NoMerge == [pc |-> "idle", uid |-> NoUser, snap |-> EmptyIdb, result |-> "none",
            before |-> EmptyNs, migrated |-> {}, run |-> 0, other |-> [pc |-> "idle"]]

\* Stores as earlier sessions may have left them, each built with the
\* adapters' own operations.
Meal1 == CHOOSE m \in MealInputs : m.date = "d1"
Meal2 == CHOOSE m \in MealInputs : m.date = "d2"
Oats == CHOOSE f \in FavInputs : f.content = "oats"
EmptyCloud == [u \in Uids |-> EmptyNs]
LocalOneFav == idb_add(EmptyIdb, "favourites", Oats).db
LocalTwoMeals == idb_add(idb_add(EmptyIdb, "meals", Meal1).db, "meals", Meal2).db
CloudSettings == fs_saveSetting(EmptyCloud, "A", "dailyCalories", 1800).db
CloudOneMeal == fs_add(EmptyCloud, "A", "meals", Meal1, genId(0, 1)).db

\* <<local database, cloud store>> at app start: a fresh install; a guest who
\* saved a favourite and no meal; an account set up on another device, with
\* settings only or with a meal.
Persisted ==
    { <<EmptyIdb, EmptyCloud>>,
      <<LocalOneFav, EmptyCloud>>,
      <<EmptyIdb, CloudSettings>>,
      <<EmptyIdb, CloudOneMeal>> }

\* An AIResponse, with every variant's fields side by side.
Result(type, message) ==
    [type |-> type, message |-> message, name |-> <<>>, food |-> <<>>,
     calories |-> 0, protein |-> 0, fat |-> 0, carbs |-> 0, fiber |-> 0,
     weight |-> <<>>]

\* No parser call and no MealInput handler is running.
NoResponse == [net |-> "none", ok |-> FALSE, text |-> <<>>]
NoCall == [pc |-> "idle", fn |-> "none", input |-> <<>>, apiKey |-> "",
           requests |-> 0, response |-> NoResponse, result |-> Result("none", <<>>)]
NoHandler == [pc |-> "idle", handler |-> "none", recipe |-> <<>>, weight |-> 0,
              mealData |-> <<>>, todayMeals |-> <<>>, messages |-> <<>>,
              outcome |-> "none", text |-> <<>>, intent |-> "none",
              isProcessing |-> FALSE, hasSuggested |-> FALSE, meal |-> <<>>,
              hook |-> [settings |-> <<>>, seen |-> <<>>, saving |-> <<>>]]

Constructed ==
    /\ uid = NoUser
    /\ now = 1
    /\ req = NoReq
    /\ res = NoRes
    /\ mg = NoMerge
    /\ uploads = <<>>
    /\ user = NoUser
    /\ loading = TRUE
    /\ ops = 0
    /\ setCalls = 0
    /\ transitions = 0
    /\ ai = NoCall
    /\ ui = NoHandler

\* The app starts: module and component state as constructed, the two stores
\* as they persist.
Init ==
    /\ \E p \in Persisted : idb = p[1] /\ fsdb = p[2]
    /\ Constructed

\* A component calls a routed operation: the router picks the adapter from
\* _uid, and fs.add* draws its document id before its first await.  The clock
\* is read only by genId, so it advances where it is read.
Issue(op, col, arg) ==
    /\ req = NoReq
    /\ ops < MaxOps
    /\ LET route == IF op = "resetAllData" THEN db_resetAllData(uid) ELSE db_route(uid) IN
         IF route.be = "fs" /\ op = "add"
         THEN \E t \in now..MaxClock : \E r \in 0..(RandSpan - 1) :
                 /\ now' = t
                 /\ req' = Request(route, op, col, arg, genId(t, r), uid)
         ELSE /\ now' = now
              /\ req' = Request(route, op, col, arg, 0, uid)
    /\ ops' = ops + 1
    /\ UNCHANGED <<uid, idb, fsdb, res, mg, uploads, user, loading, setCalls, transitions>>

\* The routed calls the pages and panels make on their own.
Call(op, col, arg) == Issue(op, col, arg) /\ UNCHANGED <<ai, ui>>

Add == \E col \in Cols : \E rec \in Inputs(col) : Call("add", col, rec)
Update ==
    \E col \in Updatable : \E rec \in Inputs(col) : \E id \in IdInputs :
        Call("update", col, WithId(rec, id))
Delete == \E col \in Cols : \E id \in IdInputs : Call("delete", col, id)
GetAll == \E col \in Cols : Call("getAll", col, 0)
GetMealsByDate == \E m \in MealInputs : Call("getMealsByDate", "meals", m.date)
GetSettings == Call("getSettings", "settings", 0)
SaveSetting == \E k \in SettingKeys : \E v \in SettingInputs[k] : Call("saveSetting", k, v)
ResetAllData == Call("resetAllData", "", 0)

Settled(o) ==
    [op |-> req.op, col |-> req.col, issuedAs |-> req.issuedAs,
     status |-> o.status, touched |-> o.touched]

\* The adapter call of the request in flight completes.
Settle ==
    /\ req # NoReq
    /\ LET o == Run(req, idb, fsdb) IN
         /\ idb' = o.db
         /\ fsdb' = o.cl
         /\ res' = Settled(o)
    /\ req' = NoReq
    /\ UNCHANGED <<uid, now, mg, uploads, user, loading, ops, setCalls, transitions, ai, ui>>

\* The cloud call of the request in flight rejects (network, permission).
SettleFail ==
    /\ req # NoReq
    /\ req.be \in {"fs", "both"}
    /\ LET o == RunFailed(req, idb, fsdb) IN
         /\ idb' = o.db
         /\ fsdb' = o.cl
         /\ res' = Settled(o)
    /\ req' = NoReq
    /\ UNCHANGED <<uid, now, mg, uploads, user, loading, ops, setCalls, transitions, ai, ui>>

----------------------------------------------------------------------------
\* AuthProvider (onAuthStateChanged callback, signOut) and the migration.

\* setCurrentUser(uid): _uid = uid
setCurrentUser(u) == uid' = u /\ setCalls' = setCalls + 1

\* onAuthStateChanged fires with firebaseUser u (NoUser for null): the callback
\* runs to its first await.  With no user it finishes at once.
AuthEvent(u) ==
    /\ mg.pc = "idle"
    /\ ops < MaxOps
    /\ setCurrentUser(u)
    /\ IF u # NoUser
       THEN /\ mg' = [NoMerge EXCEPT !.pc = "check", !.uid = u, !.migrated = mg.migrated,
                                      !.run = transitions + 1]
            /\ UNCHANGED <<user, loading>>
       ELSE /\ user' = NoUser
            /\ loading' = FALSE
            /\ mg' = [NoMerge EXCEPT !.migrated = mg.migrated]
    /\ ops' = ops + 1
    /\ transitions' = transitions + 1
    /\ UNCHANGED <<idb, fsdb, now, req, res, uploads, ai, ui>>

\* signOut (AuthButton shows it while user is set): setCurrentUser(null), then
\* firebaseSignOut (whose auth event is delivered as AuthEvent(NoUser), or
\* never when it rejects).
SignOut ==
    /\ user # NoUser
    /\ ops < MaxOps
    /\ setCurrentUser(NoUser)
    /\ ops' = ops + 1
    /\ UNCHANGED <<idb, fsdb, now, req, res, mg, uploads, user, loading, transitions, ai, ui>>

\* mergeLocalDataToFirestore, lines 13-14: the existence check.
MergeCheck ==
    /\ mg.pc = "check"
    /\ mg' = IF DOMAIN fsdb[mg.uid].meals # {}
             THEN [mg EXCEPT !.pc = "done", !.result = "skipped", !.before = fsdb[mg.uid]]
             ELSE [mg EXCEPT !.pc = "read", !.before = fsdb[mg.uid]]
    /\ UNCHANGED <<uid, idb, fsdb, now, req, res, uploads, user, loading, ops, setCalls, transitions, ai, ui>>

\* getDocs rejects outside the try block: the routine rejects, and so does the
\* callback awaiting it (setUser and setLoading are not reached).
MergeCheckFail ==
    /\ mg.pc = "check"
    /\ mg' = [mg EXCEPT !.pc = "idle", !.result = "rejected"]
    /\ UNCHANGED <<uid, idb, fsdb, now, req, res, uploads, user, loading, ops, setCalls, transitions, ai, ui>>

MergeRead_moveOut ==
    /\ mg.pc = "read"
    /\ mg' = [mg EXCEPT !.pc = "issue", !.snap = idb]
    /\ idb' = idb_resetAllData(idb).db
    /\ UNCHANGED <<uid, fsdb, now, req, res, uploads, user, loading, ops, setCalls, transitions, ai, ui>>

\* lines 17-23: the five local reads.
MergeRead ==
    /\ mg.pc = "read"
    /\ mg' = [mg EXCEPT !.pc = "issue", !.snap = idb]
    /\ UNCHANGED <<uid, idb, fsdb, now, req, res, uploads, user, loading, ops, setCalls, transitions, ai, ui>>

RECURSIVE Flatten(_)
Flatten(seqs) == IF seqs = <<>> THEN <<>> ELSE Head(seqs) \o Flatten(Tail(seqs))

\* lines 27-30: the records to upload, in forEach order, each without its id.
Records(snap) ==
    Flatten([i \in 1..Len(ColOrder) |->
        LET col == ColOrder[i]
            all == idb_getAll(snap, col).value
        IN [j \in 1..Len(all) |-> [col |-> col, rest |-> Rest(all[j])]]])

SortedKeys == <<"apiKey", "dailyCalories">>

\* lines 33-35: one saveSetting per key of the settings object read.
SettingWrites(snap, u, run) ==
    LET settings == idb_getSettings(snap).value
        keys == SelectSeq(SortedKeys, LAMBDA k : k \in DOMAIN settings)
    IN [i \in 1..Len(keys) |->
           [kind |-> "saveSetting", uid |-> u, col |-> keys[i], id |-> 0,
            data |-> settings[keys[i]], live |-> TRUE, run |-> run]]

\* lines 25-35: every upload is started in one synchronous pass; each fs.add*
\* draws its id from the clock as it is called (the pass starts at time t and
\* the clock may advance once during it, after the first k calls).
MergeIssue ==
    /\ mg.pc = "issue"
    /\ LET recs == Records(mg.snap)
           n == Len(recs)
       IN \E t \in now..MaxClock : \E k \in 0..n : \E rs \in [1..n -> 0..(RandSpan - 1)] :
            /\ n = 0 => t = now
            /\ k < n => t < MaxClock
            /\ now' = IF k < n THEN t + 1 ELSE t
            /\ uploads' = uploads
                 \o [i \in 1..n |->
                       [kind |-> "add", uid |-> mg.uid, col |-> recs[i].col,
                        id |-> genId(IF i <= k THEN t ELSE t + 1, rs[i]),
                        data |-> recs[i].rest, live |-> TRUE, run |-> mg.run]]
                 \o SettingWrites(mg.snap, mg.uid, mg.run)
    /\ mg' = [mg EXCEPT !.pc = "await"]
    /\ UNCHANGED <<uid, idb, fsdb, req, res, user, loading, ops, setCalls, transitions, ai, ui>>

Drop(seq, i) == SubSeq(seq, 1, i - 1) \o SubSeq(seq, i + 1, Len(seq))

\* The cloud write an upload makes.
Written(cl, w) ==
    IF w.kind = "add" THEN fs_add(cl, w.uid, w.col, w.data, w.id).db
    ELSE fs_saveSetting(cl, w.uid, w.col, w.data).db

\* One upload succeeds.
UploadOk ==
    \E i \in 1..Len(uploads) :
        /\ fsdb' = Written(fsdb, uploads[i])
        /\ uploads' = Drop(uploads, i)
        /\ UNCHANGED <<uid, idb, now, req, res, mg, user, loading, ops, setCalls, transitions, ai, ui>>

mergeCatch_rollback(m, ups, cl) ==
    [mg |-> [m EXCEPT !.pc = "done", !.result = "caught"],
     uploads |-> [i \in 1..Len(ups) |->
                    IF ups[i].run = m.run THEN [ups[i] EXCEPT !.live = FALSE] ELSE ups[i]],
     cl |-> [cl EXCEPT ![m.uid] = m.before]]

\* lines 37-40: what the routine does when an upload it awaits rejects:
\* Promise.all rejects, the catch logs, the routine returns.  The other
\* uploads stay in flight, no longer awaited.
mergeCatch(m, ups, cl) ==
    [mg |-> [m EXCEPT !.pc = "done", !.result = "caught"],
     uploads |-> [i \in 1..Len(ups) |->
                    IF ups[i].run = m.run THEN [ups[i] EXCEPT !.live = FALSE] ELSE ups[i]],
     cl |-> cl]

\* One upload rejects.
UploadFail ==
    \E i \in 1..Len(uploads) :
        LET rest == Drop(uploads, i) IN
        IF uploads[i].live
        THEN LET c == mergeCatch(mg, rest, fsdb) IN
             /\ uploads[i].run = mg.run
             /\ mg' = c.mg
             /\ uploads' = c.uploads
             /\ fsdb' = c.cl
             /\ UNCHANGED <<uid, idb, now, req, res, user, loading, ops, setCalls, transitions, ai, ui>>
        ELSE /\ uploads' = rest
             /\ UNCHANGED <<uid, idb, fsdb, now, req, res, mg, user, loading, ops, setCalls, transitions, ai, ui>>

\* line 37: Promise.all(uploads) resolves once every upload has succeeded.
MergeResolve ==
    /\ mg.pc = "await"
    /\ \A i \in 1..Len(uploads) : uploads[i].run = mg.run => ~uploads[i].live
    /\ mg' = [mg EXCEPT !.pc = "done", !.result = "completed",
                         !.migrated = @ \cup {mg.uid}]
    /\ UNCHANGED <<uid, idb, fsdb, now, req, res, uploads, user, loading, ops, setCalls, transitions, ai, ui>>

\* The callback resumes after the migration: setUser(firebaseUser); setLoading(false).
CallbackResume ==
    /\ mg.pc = "done"
    /\ user' = mg.uid
    /\ loading' = FALSE
    /\ mg' = [mg EXCEPT !.pc = "idle"]
    /\ UNCHANGED <<uid, idb, fsdb, now, req, res, uploads, ops, setCalls, transitions, ai, ui>>

Next ==
    \/ Add
    \/ Update
    \/ Delete
    \/ GetAll
    \/ GetMealsByDate
    \/ GetSettings
    \/ SaveSetting
    \/ ResetAllData
    \/ Settle
    \/ SettleFail
    \/ \E u \in Uids \cup {NoUser} : AuthEvent(u)
    \/ SignOut
    \/ MergeCheck
    \/ MergeCheckFail
    \/ MergeRead
    \/ MergeIssue
    \/ UploadOk
    \/ UploadFail
    \/ MergeResolve
    \/ CallbackResume

Spec == Init /\ [][Next]_vars

\* The migration alone: a guest with two meals signs in; no routed call runs.
InitMigration ==
    /\ idb = LocalTwoMeals
    /\ fsdb = EmptyCloud
    /\ Constructed

NextMigration ==
    \/ \E u \in Uids \cup {NoUser} : AuthEvent(u)
    \/ SignOut
    \/ MergeCheck
    \/ MergeCheckFail
    \/ MergeRead
    \/ MergeIssue
    \/ UploadOk
    \/ UploadFail
    \/ MergeResolve
    \/ CallbackResume

SpecMigration == InitMigration /\ [][NextMigration]_vars

\* A promise that is pending settles and the continuation awaiting it runs:
\* every step of a callback in flight is taken in the end.  Auth events and
\* signOut are the user's and need not happen.
CallbackSteps ==
    \/ MergeCheck
    \/ MergeCheckFail
    \/ MergeRead
    \/ MergeIssue
    \/ UploadOk
    \/ UploadFail
    \/ MergeResolve
    \/ CallbackResume

SpecMigrationFair == SpecMigration /\ WF_vars(CallbackSteps)

\* onAuthStateChanged fires while the callback of an earlier event is still
\* awaiting the migration (sign-in, sign-out, sign-in in quick succession; a
\* restored session followed by a sign-in).  Each delivery runs the callback
\* from its start; the earlier one stays suspended at its await and is kept
\* in mg.other while the steps of the later one are taken.
AuthEventOverlap(u) ==
    /\ ops < MaxOps
    /\ setCurrentUser(u)
    /\ IF u # NoUser
       THEN /\ mg.pc = "idle" \/ mg.other.pc = "idle"
            /\ mg' = [NoMerge EXCEPT !.pc = "check", !.uid = u, !.migrated = mg.migrated,
                                      !.run = transitions + 1,
                                      !.other = IF mg.pc = "idle" THEN mg.other
                                                ELSE [mg EXCEPT !.other = NoMerge.other]]
            /\ UNCHANGED <<user, loading>>
       ELSE /\ user' = NoUser
            /\ loading' = FALSE
            /\ UNCHANGED mg
    /\ ops' = ops + 1
    /\ transitions' = transitions + 1
    /\ UNCHANGED <<idb, fsdb, now, req, res, uploads, ai, ui>>

\* The event loop turns to the other suspended callback: its next step is the
\* one taken next.
ResumeOther ==
    /\ mg.other.pc # "idle"
    /\ mg' = [mg.other EXCEPT !.other = [mg EXCEPT !.other = NoMerge.other]]
    /\ UNCHANGED <<uid, idb, fsdb, now, req, res, uploads, user, loading, ops, setCalls, transitions, ai, ui>>

NextOverlap ==
    \/ \E u \in {"A", NoUser} : AuthEventOverlap(u)
    \/ ResumeOther
    \/ MergeCheck
    \/ MergeRead
    \/ MergeIssue
    \/ UploadOk
    \/ MergeResolve
    \/ CallbackResume

\* Overlapping callbacks of one account on one device; no call fails.
SpecOverlap == InitMigration /\ [][NextOverlap]_vars

----------------------------------------------------------------------------
\* AI Parser (ai-parser.ts, second version in the file: lines 120-317).
\* A text is a sequence of pieces: single characters where the characters
\* matter (numbers), whole words elsewhere.  A JavaScript value is its type
\* and its String() text; a missing property is undefined.
Digits == <<"0", "1", "2", "3", "4", "5", "6", "7", "8", "9">>
IsDigit(c) == \E i \in 1..10 : Digits[i] = c
IsSpace(c) == c \in {" ", "\n"}

Num(text) == [t |-> "number", s |-> text]
Str(text) == [t |-> "string", s |-> text]

\* obj.key
Get(obj, key) == IF key \in DOMAIN obj THEN obj[key] ELSE [t |-> "undefined", s |-> <<"undefined">>]

\* v || fallback: undefined, null, '' , 0 and NaN are falsy.
Falsy(v) ==
    \/ v.t \in {"undefined", "null"}
    \/ v.t = "string" /\ v.s = <<>>
    \/ v.t = "number" /\ \A i \in 1..Len(v.s) : v.s[i] \in {"0", ".", "-"}

RECURSIVE TrimLeft(_)
TrimLeft(text) ==
    IF text # <<>> /\ IsSpace(Head(text)) THEN TrimLeft(Tail(text)) ELSE text
RECURSIVE TrimRight(_)
TrimRight(text) ==
    IF text # <<>> /\ IsSpace(text[Len(text)])
    THEN TrimRight(SubSeq(text, 1, Len(text) - 1)) ELSE text

RECURSIVE DigitPrefix(_)
\* The longest run of digits a text starts with.
DigitPrefix(text) ==
    IF text # <<>> /\ IsDigit(Head(text)) THEN <<Head(text)>> \o DigitPrefix(Tail(text))
    ELSE <<>>

RECURSIVE Decimal(_, _)
\* The value of a run of digits.
Decimal(digits, acc) ==
    IF digits = <<>> THEN acc ELSE Decimal(Tail(digits), 10 * acc + (CHOOSE i \in 1..10 : Digits[i] = Head(digits)) - 1)

NaN == [nan |-> TRUE, n |-> 0]
Int32(n) == [nan |-> FALSE, n |-> n]

parseInt_strict(v) ==
    LET text == v.s
        signed == text # <<>> /\ Head(text) \in {"-", "+"}
        digits == DigitPrefix(IF signed THEN Tail(text) ELSE text)
    IN IF v.t # "number" \/ digits = <<>> THEN NaN
       ELSE IF signed /\ Head(text) = "-" THEN Int32(0 - Decimal(digits, 0))
       ELSE Int32(Decimal(digits, 0))

\* parseInt(v): String(v), leading white space skipped, an optional sign, then
\* the longest run of digits; NaN when there is none.  What follows is ignored.
parseInt(v) ==
    LET text == TrimLeft(v.s)
        signed == text # <<>> /\ Head(text) \in {"-", "+"}
        digits == DigitPrefix(IF signed THEN Tail(text) ELSE text)
    IN IF digits = <<>> THEN NaN
       ELSE IF signed /\ Head(text) = "-" THEN Int32(0 - Decimal(digits, 0))
       ELSE Int32(Decimal(digits, 0))

\* parseInt(x) || 0
IntOrZero(x) == IF x.nan \/ x.n = 0 THEN 0 ELSE x.n

\* parseFloat(v): the longest prefix of String(v), after leading white space,
\* that reads as a decimal literal (sign, digits, fraction); NaN when there is
\* none.  The number is kept as that literal.
parseFloat(v) ==
    LET text == TrimLeft(v.s)
        signed == text # <<>> /\ Head(text) \in {"-", "+"}
        body == IF signed THEN Tail(text) ELSE text
        whole == DigitPrefix(body)
        after == SubSeq(body, Len(whole) + 1, Len(body))
        frac == IF after # <<>> /\ Head(after) = "." THEN DigitPrefix(Tail(after)) ELSE <<>>
        lit == (IF signed /\ Head(text) = "-" THEN <<"-">> ELSE <<>>)
                 \o whole \o (IF frac # <<>> THEN <<".">> \o frac ELSE <<>>)
    IN IF whole = <<>> /\ frac = <<>> THEN [nan |-> TRUE, lit |-> <<>>]
       ELSE [nan |-> FALSE, lit |-> lit]

\* parseFloat(x) || 0
FloatOrZero(x) ==
    IF x.nan \/ \A i \in 1..Len(x.lit) : x.lit[i] \in {"0", ".", "-"} THEN <<"0">>
    ELSE x.lit

\* The JSON documents a completion may carry, by name.
Docs ==
    [ mealDoc |-> [kind |-> "object", fields |->
          [type |-> Str(<<"meal">>), food |-> Str(<<"dal">>), calories |-> Num(<<"2", "0", "0">>),
           protein |-> Num(<<"1", "2">>), fat |-> Num(<<"5">>), carbs |-> Num(<<"3", "0">>),
           fiber |-> Num(<<"8">>)]],
      looseMealDoc |-> [kind |-> "object", fields |->
          [type |-> Str(<<"meal">>), calories |-> Str(<<"2", "5", "0">>), protein |-> [t |-> "null", s |-> <<"null">>],
           carbs |-> Str(<<"abc">>), fiber |-> Num(<<"2", ".", "7">>)]],
      oddMealDoc |-> [kind |-> "object", fields |->
          [type |-> Str(<<"meal">>), food |-> Str(<<>>), calories |-> Str(<<"1", "2", "g">>),
           protein |-> [t |-> "boolean", s |-> <<"true">>], fat |-> Str(<<" ", "7">>), carbs |-> Num(<<"-", "3">>),
           fiber |-> Str(<<>>)]],
      weightDoc |-> [kind |-> "object", fields |->
          [type |-> Str(<<"weight">>), weight |-> Num(<<"7", "4", ".", "5">>)]],
      textWeightDoc |-> [kind |-> "object", fields |->
          [type |-> Str(<<"weight">>), weight |-> Str(<<"7", "4", "kg">>)]],
      badWeightDoc |-> [kind |-> "object", fields |->
          [type |-> Str(<<"weight">>), weight |-> Str(<<"heavy">>)]],
      chatDoc |-> [kind |-> "object", fields |->
          [type |-> Str(<<"chat">>), message |-> Str(<<"hello">>)]],
      favSaveDoc |-> [kind |-> "object", fields |->
          [type |-> Str(<<"favourite_save">>), name |-> Str(<<"oats">>)]],
      favLogDoc |-> [kind |-> "object", fields |->
          [type |-> Str(<<"favourite_log">>), name |-> Str(<<"oats">>)]],
      recipeLogDoc |-> [kind |-> "object", fields |->
          [type |-> Str(<<"recipe_log">>), name |-> Str(<<"stew">>), weight |-> Num(<<"1", "5", "0">>)]],
      untypedDoc |-> [kind |-> "object", fields |-> [food |-> Str(<<"dal">>)]],
      nullDoc |-> [kind |-> "null", fields |-> <<>>],
      numberDoc |-> [kind |-> "number", fields |-> <<>>] ]
DocNames == DOMAIN Docs

\* The markdown code fence (written ~~~ here for three backquotes), bare and
\* with its json tag.
Fence == "~~~"
FenceJson == "~~~json"

\* callGemini, line 159: both fence forms are removed from raw, then trim().
StripFences(raw) ==
    TrimRight(TrimLeft(SelectSeq(SelectSeq(raw, LAMBDA c : c # FenceJson),
                                 LAMBDA c : c # Fence)))

\* JSON.parse(text): one document, white space around it allowed; anything
\* else throws.
JSON_parse(text) ==
    LET body == SelectSeq(text, LAMBDA c : ~IsSpace(c)) IN
    IF Len(body) = 1 /\ body[1] \in DocNames
    THEN [threw |-> FALSE, doc |-> body[1]]
    ELSE [threw |-> TRUE, doc |-> "none"]

ConfigError == Result("error", <<"No API key set.">>)
GenericError == Result("error", <<"Something went wrong.">>)
Nothing == Result("null", <<>>)

Recognised == {"meal", "favourite_save", "favourite_log", "weight", "chat"}

\* processInput, lines 219-240: the completion is parsed and dispatched on its
\* type; every throw lands in the catch of lines 241-244.
interpret(raw, input) ==
    LET p == JSON_parse(raw) IN
    IF p.threw \/ Docs[p.doc].kind = "null" THEN GenericError
    ELSE LET parsed == Docs[p.doc].fields
             type == Get(parsed, "type")
         IN CASE type = Str(<<"meal">>) ->
                   [Result("meal", <<>>) EXCEPT
                      !.food = IF Falsy(Get(parsed, "food")) THEN input ELSE Get(parsed, "food").s,
                      !.calories = IntOrZero(parseInt(Get(parsed, "calories"))),
                      !.protein = IntOrZero(parseInt(Get(parsed, "protein"))),
                      !.fat = IntOrZero(parseInt(Get(parsed, "fat"))),
                      !.carbs = IntOrZero(parseInt(Get(parsed, "carbs"))),
                      !.fiber = IntOrZero(parseInt(Get(parsed, "fiber")))]
              [] type = Str(<<"favourite_save">>) ->
                   [Result("favourite_save", <<>>) EXCEPT !.name = Get(parsed, "name").s]
              [] type = Str(<<"favourite_log">>) ->
                   [Result("favourite_log", <<>>) EXCEPT !.name = Get(parsed, "name").s]
              [] type = Str(<<"weight">>) ->
                   [Result("weight", <<>>) EXCEPT
                      !.weight = FloatOrZero(parseFloat(Get(parsed, "weight")))]
              [] type = Str(<<"chat">>) ->
                   Result("chat", Get(parsed, "message").s)
              [] OTHER -> GenericError

\* What fetch may do: reject, answer with a non-success status, or answer 200
\* with a completion, the text of the first candidate (no candidate at all
\* reads as the empty text, line 158).
Responses ==
    LET Completions ==
          { <<"mealDoc">>, <<FenceJson, "\n", "mealDoc", "\n", Fence>>, <<" ", "mealDoc", "\n">>,
        <<"Here", " ", "mealDoc">>, <<"sorry">>, <<>>,
        <<"looseMealDoc">>, <<Fence, "oddMealDoc", Fence>>,
        <<"weightDoc">>, <<"textWeightDoc">>, <<"badWeightDoc">>,
        <<"chatDoc">>, <<"favSaveDoc">>, <<"favLogDoc">>,
        <<"recipeLogDoc">>, <<"untypedDoc">>, <<"nullDoc">>, <<"numberDoc">> }
    IN { [net |-> "reject", ok |-> FALSE, text |-> <<>>],
         [net |-> "ok", ok |-> FALSE, text |-> <<"quota">>] }
         \cup { [net |-> "ok", ok |-> TRUE, text |-> c] : c \in Completions }

\* format(new Date(), 'yyyy-MM-dd') and the seven dates ending with it.
Today == "d2"
Last7Dates == {"d1", "d2"}

\* A routed read, answered from the backend _uid selects.
routed(u, db, cl, op, col, arg) ==
    LET r == Request(db_route(u), op, col, arg, 0, u) IN
    IF r.be = "idb" THEN idbRun(r, db).value ELSE fsRun(r, cl).value

\* What each entry point returns when it stops without an answer.
OnCatch(fn) == IF fn = "processInput" THEN GenericError ELSE Nothing

\* processInput(input), getMealSuggestion() or getSmartObservations() is
\* called: it runs to its first await, getSettings().
CallAi(fn, input) ==
    /\ ai.pc \in {"idle", "done"}
    /\ ai' = [NoCall EXCEPT !.pc = "getSettings", !.fn = fn, !.input = input]
    /\ UNCHANGED <<dbvars, setCalls, transitions, ui>>

ProcessInput == \E input \in { <<"dal">>, <<"74", "kg">> } : CallAi("processInput", input)
GetMealSuggestion == CallAi("getMealSuggestion", <<>>)
GetSmartObservations == CallAi("getSmartObservations", <<>>)

\* Mutant of NeedsKey: the key check is skipped.
NeedsKey_unchecked(apiKey) == FALSE

\* if (!apiKey) / if (!settings.apiKey)
NeedsKey(apiKey) == apiKey = ""

\* getSettings() resolves: lines 163-168, 248-249, 283-284.
AiSettings ==
    /\ ai.pc = "getSettings"
    /\ LET apiKey == routed(uid, idb, fsdb, "getSettings", "settings", 0).apiKey IN
         ai' = IF NeedsKey(apiKey)
               THEN [ai EXCEPT !.pc = "done", !.result = IF ai.fn = "processInput" THEN ConfigError
                                                         ELSE Nothing]
               ELSE [ai EXCEPT !.pc = "getMeals", !.apiKey = apiKey]
    /\ UNCHANGED <<dbvars, setCalls, transitions, ui>>

\* getSettings() rejects (cloud read): it is awaited before the try block, so
\* the entry point rejects.
AiSettingsFail ==
    /\ ai.pc = "getSettings"
    /\ db_route(uid).be = "fs"
    /\ ai' = [ai EXCEPT !.pc = "done", !.result = Result("rejected", <<>>)]
    /\ UNCHANGED <<dbvars, setCalls, transitions, ui>>

\* Whether the history read lets the entry point go on to the model.
EnoughHistory(fn, u, db, cl) ==
    CASE fn = "processInput" -> TRUE
      [] fn = "getMealSuggestion" -> Len(routed(u, db, cl, "getMealsByDate", "meals", Today)) # 0
      [] fn = "getSmartObservations" ->
           Len(SelectSeq(routed(u, db, cl, "getAll", "meals", 0), LAMBDA m : m.date \in Last7Dates)) >= 3

\* callGemini: one fetch is issued (lines 141-149).
Request_once(a) == [a EXCEPT !.pc = "fetch", !.requests = @ + 1]

\* The meals read resolves (lines 172, 253-254, 287-292); with enough history
\* the prompt is built and callGemini is called.
AiMeals ==
    /\ ai.pc = "getMeals"
    /\ ai' = IF EnoughHistory(ai.fn, uid, idb, fsdb)
             THEN Request_once(ai)
             ELSE [ai EXCEPT !.pc = "done", !.result = Nothing]
    /\ UNCHANGED <<dbvars, setCalls, transitions, ui>>

\* The meals read rejects (cloud read), inside the try block.
AiMealsFail ==
    /\ ai.pc = "getMeals"
    /\ db_route(uid).be = "fs"
    /\ ai' = [ai EXCEPT !.pc = "done", !.result = OnCatch(ai.fn)]
    /\ UNCHANGED <<dbvars, setCalls, transitions, ui>>

\* What the entry point returns once fetch has settled with resp.
complete_retry(a, resp) ==
    IF resp.net = "reject" \/ ~resp.ok THEN Request_once(a)
    ELSE [a EXCEPT !.pc = "done",
                   !.result = IF a.fn = "processInput"
                              THEN interpret(StripFences(resp.text), a.input)
                              ELSE Result("text", StripFences(resp.text))]

\* callGemini lines 151-159 and the caller's lines after it: a rejected fetch
\* or a non-success status throws into the caller's catch; otherwise the
\* completion is stripped of fences and returned (getMealSuggestion,
\* getSmartObservations) or interpreted (processInput).
complete(a, resp) ==
    IF resp.net = "reject" \/ ~resp.ok
    THEN [a EXCEPT !.pc = "done", !.result = OnCatch(a.fn)]
    ELSE [a EXCEPT !.pc = "done",
                   !.result = IF a.fn = "processInput"
                              THEN interpret(StripFences(resp.text), a.input)
                              ELSE Result("text", StripFences(resp.text))]

\* fetch settles.
AiFetch(resp) ==
    /\ ai.pc = "fetch"
    /\ ai' = [complete(ai, resp) EXCEPT !.response = resp]
    /\ UNCHANGED <<dbvars, setCalls, transitions, ui>>

\* The app as the parser finds it: a guest, or identity A whose session was
\* restored at start (one auth event, the migration skipped because A has
\* meals in the cloud).
Guest(db) ==
    /\ idb = db
    /\ fsdb = EmptyCloud
    /\ Constructed

SessionRestored(u, cl) ==
    /\ idb = EmptyIdb
    /\ fsdb = cl
    /\ uid = u
    /\ user = u
    /\ loading = FALSE
    /\ mg = [NoMerge EXCEPT !.uid = u, !.result = "skipped", !.before = cl[u]]
    /\ ops = 1
    /\ setCalls = 1
    /\ transitions = 1
    /\ now = 1
    /\ req = NoReq
    /\ res = NoRes
    /\ uploads = <<>>
    /\ ai = NoCall
    /\ ui = NoHandler

InitParser ==
    LET KeyIdb == idb_saveSetting(EmptyIdb, "apiKey", "key").db
        KeyIdbMeals ==
            idb_add(idb_add(idb_add(KeyIdb, "meals", Meal1).db, "meals", Meal2).db,
                    "meals", Meal2).db
        CloudKeyMeal ==
            fs_saveSetting(fs_add(EmptyCloud, "A", "meals", Meal2, genId(0, 1)).db,
                           "A", "apiKey", "key").db
    IN \/ \E db \in {EmptyIdb, KeyIdb, KeyIdbMeals} : Guest(db)
       \/ \E cl \in {CloudOneMeal, CloudKeyMeal} : SessionRestored("A", cl)

NextParser ==
    \/ ProcessInput
    \/ GetMealSuggestion
    \/ GetSmartObservations
    \/ AiSettings
    \/ AiSettingsFail
    \/ AiMeals
    \/ AiMealsFail
    \/ \E resp \in Responses : AiFetch(resp)

SpecParser == InitParser /\ [][NextParser]_vars

----------------------------------------------------------------------------
\* MealInput.tsx (handleRecipeLog) and useMeals (App.tsx lines 65-123).
\* JavaScript numbers are IEEE 754 doubles: a positive double is written
\* sig * 2^exp, sig being its 53-bit significand, kept as its bits (most
\* significant first).  The recipes of the model have a positive totalWeight,
\* the weights logged are positive and the quantities are whole numbers.
Precision == 53

RECURSIVE ToBits(_)
\* The binary digits of a natural number.
ToBits(n) == IF n = 0 THEN <<>> ELSE Append(ToBits(n \div 2), n % 2)

RECURSIVE FromBits(_)
\* The natural number written by binary digits.
FromBits(bits) ==
    IF bits = <<>> THEN 0
    ELSE 2 * FromBits(SubSeq(bits, 1, Len(bits) - 1)) + bits[Len(bits)]

RECURSIVE AddOne(_)
\* bits + 1 (one digit longer when every digit was 1).
AddOne(bits) ==
    IF bits = <<>> THEN <<1>>
    ELSE IF bits[Len(bits)] = 0 THEN SubSeq(bits, 1, Len(bits) - 1) \o <<1>>
    ELSE AddOne(SubSeq(bits, 1, Len(bits) - 1)) \o <<0>>

\* Round to nearest, ties to even: sig is followed by a guard digit and
\* possibly more (sticky).  When the carry lengthens sig, its last digit is
\* dropped and the exponent grows by one.
RoundEven(sig, exp, guard, sticky) ==
    IF guard = 1 /\ (sticky \/ sig[Len(sig)] = 1)
    THEN LET up == AddOne(sig) IN
         IF Len(up) > Len(sig)
         THEN [sig |-> SubSeq(up, 1, Len(sig)), exp |-> exp + 1]
         ELSE [sig |-> up, exp |-> exp]
    ELSE [sig |-> sig, exp |-> exp]

RECURSIVE Quotient(_, _, _, _)
\* Long division of r / b continued below the binary point until Precision
\* digits stand after the first 1; f counts the digits below the point.
Quotient(bits, r, b, f) ==
    IF Len(bits) = Precision
    THEN RoundEven(bits, 0 - f, (2 * r) \div b, (2 * r) % b # 0)
    ELSE LET d == (2 * r) \div b IN
         Quotient(IF bits = <<>> /\ d = 0 THEN <<>> ELSE Append(bits, d), (2 * r) % b, b, f + 1)

RECURSIVE TimesSmall(_, _, _, _)
\* The digits of bits * t, t a whole number, worked from the last digit:
\* digits are those already written, carry what is carried into the next.
TimesSmall(bits, t, carry, digits) ==
    IF Len(digits) = Len(bits) THEN ToBits(carry) \o digits
    ELSE LET v == bits[Len(bits) - Len(digits)] * t + carry IN
         TimesSmall(bits, t, v \div 2, <<v % 2>> \o digits)

\* lines 58-65: ratio = weight / recipe.totalWeight, the double nearest to the
\* quotient; recipe.totalX * ratio, the exact product rounded to Precision
\* digits; Math.round of it, the whole part plus one when the first digit
\* below the point is 1 (halves go up).
scaled(total, weight, totalWeight) ==
    LET ratio == Quotient(ToBits(weight \div totalWeight), weight % totalWeight, totalWeight, 0)
        digits == TimesSmall(ratio.sig, total, 0, <<>>)
        extra == Len(digits) - Precision
        product == IF extra = 0 THEN ratio
                   ELSE RoundEven(SubSeq(digits, 1, Precision), ratio.exp + extra,
                                  digits[Precision + 1],
                                  \E i \in (Precision + 2)..Len(digits) : digits[i] = 1)
        below == 0 - product.exp
    IN IF total = 0 \/ below > Precision THEN 0
       ELSE FromBits(SubSeq(product.sig, 1, Precision - below))
              + (IF below >= 1 THEN product.sig[Precision - below + 1] ELSE 0)

\* The weights a 'recipe-log' event carries.
LogWeights == {29, 100, 150}

\* lines 59-66: the meal data computed from the event's recipe and weight.
scaledMealData(recipe, weight) ==
    [food |-> ToString(weight) \o "g " \o recipe.name,
     calories |-> scaled(recipe.totalCalories, weight, recipe.totalWeight),
     protein |-> scaled(recipe.totalProtein, weight, recipe.totalWeight),
     fat |-> scaled(recipe.totalFat, weight, recipe.totalWeight),
     carbs |-> scaled(recipe.totalCarbs, weight, recipe.totalWeight),
     fiber |-> scaled(recipe.totalFiber, weight, recipe.totalWeight)]

\* Mutant of mealOf: the total is not taken from the parsed entry.
mealOf_noTotal(text, parsedData, clock) ==
    [date |-> Today, timestamp |-> clock, content |-> text,
     parsed |-> <<parsedData>>, totalCalories |-> 0]

\* useMeals.addMeal (App.tsx lines 111-120): the meal handed to the router.
mealOf(text, parsedData, clock) ==
    [date |-> Today, timestamp |-> clock, content |-> text,
     parsed |-> <<parsedData>>, totalCalories |-> parsedData.calories]

\* A 'recipe-log' event is dispatched with one of the user's recipes and a
\* weight: handleRecipeLog runs to its first await, inside useMeals.addMeal,
\* where the routed addMeal is in flight.
HandleRecipeLog ==
    /\ ui.pc = "idle"
    /\ \E i \in DOMAIN routed(uid, idb, fsdb, "getAll", "recipes", 0) : \E weight \in LogWeights :
         LET recipe == routed(uid, idb, fsdb, "getAll", "recipes", 0)[i]
             mealData == scaledMealData(recipe, weight)
         IN /\ Issue("add", "meals",
                     mealOf(ToString(weight) \o "g of " \o recipe.name, mealData, now))
            /\ ui' = [ui EXCEPT !.pc = "addMeal", !.handler = "recipeLog",
                                !.recipe = recipe, !.weight = weight,
                                !.mealData = mealData, !.outcome = "none"]
    /\ UNCHANGED ai

\* addMealToDB resolved: useMeals.addMeal goes on to its own refreshMeals.
AddMealResolved ==
    /\ ui.pc = "addMeal"
    /\ req = NoReq
    /\ res.status = "ok"
    /\ ui' = [ui EXCEPT !.pc = "refreshAfterAdd"]
    /\ UNCHANGED <<dbvars, setCalls, transitions, ai>>

\* addMealToDB rejected: nothing catches it in addMeal or in the handler.
AddMealRejected ==
    /\ ui.pc = "addMeal"
    /\ req = NoReq
    /\ res.status # "ok"
    /\ ui' = [ui EXCEPT !.pc = "idle", !.outcome = "rejected"]
    /\ UNCHANGED <<dbvars, setCalls, transitions, ai>>

\* The handler after a refreshMeals has finished.  handleRecipeLog goes from
\* addMeal's refresh on to its own (line 68) and after its own appends the
\* message (lines 69-70).  handleSend, back from addMeal, appends the message,
\* calls triggerSuggestion() after a typed meal (lines 113-119; 144-150 for a
\* favourite, without the suggestion) and ends with setIsProcessing(false).
afterRefresh(h) ==
    IF h.pc = "refreshAfterAdd" /\ h.handler = "recipeLog" THEN [h EXCEPT !.pc = "refresh"]
    ELSE [h EXCEPT !.pc = "idle", !.outcome = "logged",
                   !.messages = Append(@, [type |-> "meal", text |-> "Logged!",
                                           mealData |-> h.mealData]),
                   !.hasSuggested = @ \/ (h.handler = "send" /\ h.intent = "meal"),
                   !.isProcessing = IF h.handler = "send" THEN FALSE ELSE @]

\* triggerSuggestion (lines 96-103), called by a handler that takes the page
\* from h to h2: the first time, getMealSuggestion() is called and runs to
\* its first await.
triggerSuggestion(h, h2, a) ==
    IF ~h.hasSuggested /\ h2.hasSuggested
    THEN [NoCall EXCEPT !.pc = "getSettings", !.fn = "getMealSuggestion"]
    ELSE a

\* refreshMeals (App.tsx lines 82-103): getMealsByDate(today) resolves.
RefreshMeals ==
    /\ ui.pc \in {"refreshAfterAdd", "refresh"}
    /\ ui' = afterRefresh([ui EXCEPT !.todayMeals = routed(uid, idb, fsdb, "getMealsByDate", "meals", Today)])
    /\ ai' = triggerSuggestion(ui, ui', ai)
    /\ UNCHANGED <<dbvars, setCalls, transitions>>

\* getMealsByDate(today) rejects (cloud read): refreshMeals catches it.
RefreshMealsFail ==
    /\ ui.pc \in {"refreshAfterAdd", "refresh"}
    /\ db_route(uid).be = "fs"
    /\ ui' = afterRefresh(ui)
    /\ ai' = triggerSuggestion(ui, ui', ai)
    /\ UNCHANGED <<dbvars, setCalls, transitions>>

\* The app as the recipe panel finds it: a guest with two recipes, or
\* identity A, session restored, with a meal and a recipe in the cloud.
InitRecipe ==
    LET Stew == CHOOSE r \in RecipeInputs : r.name = "stew"
        Soup == CHOOSE r \in RecipeInputs : r.name = "soup"
    IN \/ Guest(idb_add(idb_add(EmptyIdb, "recipes", Stew).db, "recipes", Soup).db)
       \/ SessionRestored("A", fs_add(fs_add(CloudOneMeal, "A", "recipes", Stew, genId(0, 1)).db,
                                      "A", "recipes", Soup, genId(0, 2)).db)

NextRecipe ==
    \/ HandleRecipeLog
    \/ Settle
    \/ SettleFail
    \/ AddMealResolved
    \/ AddMealRejected
    \/ RefreshMeals
    \/ RefreshMealsFail

SpecRecipe == InitRecipe /\ [][NextRecipe]_vars

----------------------------------------------------------------------------
\* MealInput.tsx handleSend (lines 106-194) and EditMealModal.handleSave
\* (part_002 lines 19-47).  Both call processInput and go on when it settles,
\* then await the routed calls of the intent's branch.

\* The handler is over: its last statement, setIsProcessing(false), has run,
\* after the message (if any) was appended.
finished(h, msgs) ==
    [h EXCEPT !.pc = "idle", !.outcome = "done", !.isProcessing = FALSE,
              !.messages = @ \o msgs]

\* The handler's promise rejects: nothing after the failed await runs.
rejected(h) == [h EXCEPT !.pc = "idle", !.outcome = "rejected"]

\* handleSend, lines 106-112: with text typed and no send in progress, the
\* input is cleared, isProcessing set, the user's message appended and
\* processInput(text) called.  A send is started when the routed calls it can
\* make (two at most) and the messages it can add are within the bounds.
HandleSend ==
    /\ ui.pc = "idle"
    /\ ~ui.isProcessing
    /\ ai.pc \in {"idle", "done"}
    /\ ai.fn # "getMealSuggestion"
    /\ ops + 2 <= MaxOps
    /\ Len(ui.messages) + 3 <= MaxChat
    /\ \E text \in { <<"dal">>, <<"74", "kg">> } :
         /\ ui' = [ui EXCEPT !.pc = "processInput", !.handler = "send", !.text = text,
                             !.intent = "none", !.outcome = "none", !.isProcessing = TRUE,
                             !.messages = Append(@, [role |-> "user", text |-> text])]
         /\ ai' = [NoCall EXCEPT !.pc = "getSettings", !.fn = "processInput", !.input = text]
    /\ UNCHANGED <<dbvars, setCalls, transitions>>

\* handleSend, lines 112-190: processInput has settled; the branch of the
\* result's type runs to its first await, or to the end when it has none.
SendDispatch ==
    /\ ui.pc = "processInput"
    /\ ui.handler = "send"
    /\ ai.pc = "done"
    /\ LET result == ai.result
           h == [ui EXCEPT !.intent = result.type]
           data == [food |-> result.food, calories |-> result.calories,
                    protein |-> result.protein, fat |-> result.fat,
                    carbs |-> result.carbs, fiber |-> result.fiber]
           lastMeal == ui.todayMeals[Len(ui.todayMeals)]
       IN CASE result.type = "rejected" ->
                 ui' = rejected(h) /\ UNCHANGED <<dbvars, setCalls, transitions>>
            [] result.type = "meal" ->
                 /\ Issue("add", "meals", mealOf(ui.text, data, now))
                 /\ ui' = [h EXCEPT !.pc = "addMeal", !.mealData = data]
            [] result.type = "favourite_save" /\ ui.todayMeals # <<>> ->
                 /\ Issue("add", "favourites",
                          [name |-> result.name, content |-> lastMeal.content,
                           parsed |-> lastMeal.parsed,
                           totalCalories |-> lastMeal.totalCalories, createdAt |-> now])
                 /\ ui' = [h EXCEPT !.pc = "addFavourite", !.meal = lastMeal]
            [] result.type = "favourite_save" /\ ui.todayMeals = <<>> ->
                 /\ ui' = finished(h, <<[type |-> "error", text |-> "Log a meal first"]>>)
                 /\ UNCHANGED <<dbvars, setCalls, transitions>>
            [] result.type = "favourite_log" ->
                 /\ Issue("getAll", "favourites", 0)
                 /\ ui' = [h EXCEPT !.pc = "getAllFavourites"]
            [] result.type = "weight" ->
                 /\ Issue("add", "weights",
                          [date |-> Today, weight |-> result.weight, timestamp |-> now])
                 /\ ui' = [h EXCEPT !.pc = "addWeight"]
            [] OTHER ->
                 /\ ui' = finished(h, <<[type |-> result.type, text |-> result.message]>>)
                 /\ UNCHANGED <<dbvars, setCalls, transitions>>
    /\ UNCHANGED ai

\* lines 127-138: addFavourite settled; a rejection is caught and reported as
\* a name that already exists.
FavouriteSettled ==
    /\ ui.pc = "addFavourite"
    /\ req = NoReq
    /\ ui' = finished(ui, <<[type |-> IF res.status = "ok" THEN "favourite_saved" ELSE "error",
                            text |-> ai.result.name]>>)
    /\ UNCHANGED <<dbvars, setCalls, transitions, ai>>

\* lines 142-155: getAllFavourites resolved.  The favourite is looked up by
\* its lower-cased name; if the user confirms, addMeal(fav.content,
\* fav.parsed[0]) is called, which throws at once when parsed is empty.
FavouritesRead ==
    /\ ui.pc = "getAllFavourites"
    /\ req = NoReq
    /\ res.status = "ok"
    /\ LET LowerCase(name) == [i \in DOMAIN name |-> IF name[i] = "Oats" THEN "oats" ELSE name[i]]
           favs == routed(uid, idb, fsdb, "getAll", "favourites", 0)
           found == { i \in DOMAIN favs : LowerCase(favs[i].name) = LowerCase(ai.result.name) }
           fav == favs[Min(found)]
       IN IF found = {}
          THEN /\ ui' = finished(ui, <<[type |-> "error", text |-> "No favourite found"]>>)
               /\ UNCHANGED <<dbvars, setCalls, transitions>>
          ELSE \/ /\ ui' = finished(ui, <<>>)
                  /\ UNCHANGED <<dbvars, setCalls, transitions>>
               \/ /\ fav.parsed = <<>>
                  /\ ui' = rejected(ui)
                  /\ UNCHANGED <<dbvars, setCalls, transitions>>
               \/ /\ fav.parsed # <<>>
                  /\ Issue("add", "meals", mealOf(fav.content, fav.parsed[1], now))
                  /\ ui' = [ui EXCEPT !.pc = "addMeal", !.mealData = fav.parsed[1]]
    /\ UNCHANGED ai

\* lines 177-179: addWeight resolved; saveSetting('profileWeight', ..) is called.
WeightAdded ==
    /\ ui.pc = "addWeight"
    /\ req = NoReq
    /\ res.status = "ok"
    /\ Issue("saveSetting", "profileWeight", ai.result.weight)
    /\ ui' = [ui EXCEPT !.pc = "saveSetting"]
    /\ UNCHANGED ai

\* lines 179-180: saveSetting resolved; the weight message ends the handler.
ProfileSaved ==
    /\ ui.pc = "saveSetting"
    /\ req = NoReq
    /\ res.status = "ok"
    /\ ui' = finished(ui, <<[type |-> "weight", text |-> ai.result.weight]>>)
    /\ UNCHANGED <<dbvars, setCalls, transitions, ai>>

\* An awaited routed call outside any try block rejected (getAllFavourites,
\* addWeight, saveSetting in handleSend; updateMeal in handleSave).
AwaitRejected ==
    /\ ui.pc \in {"getAllFavourites", "addWeight", "saveSetting", "updateMeal"}
    /\ req = NoReq
    /\ res.status # "ok"
    /\ ui' = rejected(ui)
    /\ UNCHANGED <<dbvars, setCalls, transitions, ai>>

\* triggerSuggestion, lines 99-102: getMealSuggestion() has settled; a
\* suggestion is appended to the chat.
Suggested ==
    /\ ai.fn = "getMealSuggestion"
    /\ ai.pc = "done"
    /\ ui' = [ui EXCEPT !.messages =
                IF ai.result.type = "text" /\ ai.result.message # <<>>
                THEN Append(@, [type |-> "suggestion", text |-> ai.result.message]) ELSE @]
    /\ ai' = NoCall
    /\ UNCHANGED <<dbvars, setCalls, transitions>>

\* EditMealModal.handleSave, lines 19-31: a stored meal is open in the modal
\* and its text is submitted: isProcessing is set and processInput called.
HandleSave ==
    /\ ui.pc = "idle"
    /\ ~ui.isProcessing
    /\ ai.pc \in {"idle", "done"}
    /\ ai.fn # "getMealSuggestion"
    /\ ops + 2 <= MaxOps
    /\ \E i \in DOMAIN routed(uid, idb, fsdb, "getAll", "meals", 0) :
         ui' = [ui EXCEPT !.pc = "processInput", !.handler = "edit",
                          !.meal = routed(uid, idb, fsdb, "getAll", "meals", 0)[i],
                          !.text = <<"dal">>, !.intent = "none", !.outcome = "none",
                          !.isProcessing = TRUE]
    /\ ai' = [NoCall EXCEPT !.pc = "getSettings", !.fn = "processInput", !.input = <<"dal">>]
    /\ UNCHANGED <<dbvars, setCalls, transitions>>

\* handleSave, lines 31-47: processInput has settled.  A meal result rewrites
\* the record (content, totalCalories, parsed) through updateMeal; any other
\* result sets the error and ends the handler.
SaveDispatch ==
    /\ ui.pc = "processInput"
    /\ ui.handler = "edit"
    /\ ai.pc = "done"
    /\ LET result == ai.result
           h == [ui EXCEPT !.intent = result.type]
           data == [food |-> result.food, calories |-> result.calories,
                    protein |-> result.protein, fat |-> result.fat,
                    carbs |-> result.carbs, fiber |-> result.fiber]
       IN CASE result.type = "rejected" ->
                 ui' = rejected(h) /\ UNCHANGED <<dbvars, setCalls, transitions>>
            [] result.type = "meal" ->
                 /\ Issue("update", "meals",
                          [ui.meal EXCEPT !.content = ui.text,
                                          !.totalCalories = data.calories,
                                          !.parsed = <<data>>])
                 /\ ui' = [h EXCEPT !.pc = "updateMeal", !.mealData = data]
            [] OTHER ->
                 /\ ui' = finished(h, <<>>)
                 /\ UNCHANGED <<dbvars, setCalls, transitions>>
    /\ UNCHANGED ai

\* handleSave, lines 40-46: updateMeal resolved; onSaved(), onClose() and
\* setIsProcessing(false).
MealUpdated ==
    /\ ui.pc = "updateMeal"
    /\ req = NoReq
    /\ res.status = "ok"
    /\ ui' = finished(ui, <<>>)
    /\ UNCHANGED <<dbvars, setCalls, transitions, ai>>

\* The app as the chat page finds it once mounted (today's meals loaded by
\* the hook's first refreshMeals), with an API key stored: a guest with no
\* record; a guest with a meal logged today, the favourite saved from it and
\* a recipe; identity A, session restored, with two meals logged today, a
\* favourite and a recipe.
\* A's first meal read the clock at 1 and drew its id at 2 with random part
\* 1, the second read the clock at 2 and drew its id there with random part 0.
InitSend ==
    LET data == [food |-> <<"dal">>, calories |-> 200, protein |-> 12, fat |-> 5,
                 carbs |-> 30, fiber |-> 8]
        dal == mealOf(<<"dal">>, data, 1)
        roti == mealOf(<<"roti">>, [data EXCEPT !.food = <<"roti">>, !.calories = 120], 2)
        fav(name) == [name |-> name, content |-> dal.content, parsed |-> dal.parsed,
                      totalCalories |-> dal.totalCalories, createdAt |-> 1]
        key == idb_saveSetting(EmptyIdb, "apiKey", "key").db
        soup == CHOOSE r \in RecipeInputs : r.name = "soup"
        local == idb_add(idb_add(idb_add(key, "meals", dal).db,
                                 "favourites", fav(<<"oats">>)).db, "recipes", soup).db
        cloud == fs_saveSetting(
                     fs_add(fs_add(fs_add(fs_add(EmptyCloud, "A", "meals", dal, genId(2, 1)).db,
                                          "A", "meals", roti, genId(2, 0)).db,
                                   "A", "favourites", fav(<<"Oats">>), genId(2, 1)).db,
                            "A", "recipes", soup, genId(2, 1)).db,
                     "A", "apiKey", "key").db
        App(db, cl, u, clock) ==
            /\ idb = db
            /\ fsdb = cl
            /\ uid = u
            /\ user = u
            /\ loading = (u = NoUser)
            /\ mg = IF u = NoUser THEN NoMerge
                    ELSE [NoMerge EXCEPT !.uid = u, !.result = "skipped", !.before = cl[u]]
            /\ setCalls = (IF u = NoUser THEN 0 ELSE 1)
            /\ transitions = (IF u = NoUser THEN 0 ELSE 1)
            /\ ops = 0
            /\ now = clock
            /\ req = NoReq
            /\ res = NoRes
            /\ uploads = <<>>
            /\ ai = NoCall
            /\ ui = [NoHandler EXCEPT
                       !.todayMeals = routed(u, db, cl, "getMealsByDate", "meals", Today)]
    IN \/ App(key, EmptyCloud, NoUser, 1)
       \/ App(local, EmptyCloud, NoUser, 1)
       \/ App(EmptyIdb, cloud, "A", 2)

NextSend ==
    \/ HandleSend
    \/ SendDispatch
    \/ FavouriteSettled
    \/ FavouritesRead
    \/ WeightAdded
    \/ ProfileSaved
    \/ AwaitRejected
    \/ Suggested
    \/ HandleSave
    \/ SaveDispatch
    \/ MealUpdated
    \/ HandleRecipeLog
    \/ AddMealResolved
    \/ AddMealRejected
    \/ RefreshMeals
    \/ RefreshMealsFail
    \/ Settle
    \/ SettleFail
    \/ AiSettings
    \/ AiSettingsFail
    \/ AiMeals
    \/ AiMealsFail
    \/ \E resp \in Responses : AiFetch(resp)

SpecSend == InitSend /\ [][NextSend]_vars

\* The steps the event loop takes by itself: a pending promise settles, the
\* continuation awaiting it runs.  Sending, saving and logging a recipe are
\* the user's and need not happen.
SendSteps ==
    \/ SendDispatch
    \/ FavouriteSettled
    \/ FavouritesRead
    \/ WeightAdded
    \/ ProfileSaved
    \/ AwaitRejected
    \/ Suggested
    \/ SaveDispatch
    \/ MealUpdated
    \/ AddMealResolved
    \/ AddMealRejected
    \/ RefreshMeals
    \/ RefreshMealsFail
    \/ Settle
    \/ SettleFail
    \/ AiSettings
    \/ AiSettingsFail
    \/ AiMeals
    \/ AiMealsFail
    \/ \E resp \in Responses : AiFetch(resp)

\* The same under weak fairness of those steps.
SpecSendFair == SpecSend /\ WF_vars(SendSteps)

\* Home.tsx line 107: [...meals].reverse(), the list under "Today's meals".
HomeList(meals) == [i \in 1..Len(meals) |-> meals[Len(meals) + 1 - i]]

----------------------------------------------------------------------------
\* useSettings (hooks/useSettings.ts), in ui.hook.  settings is the hook's
\* state, <<>> for null and <<s>> for the object s; seen is the state the
\* component last rendered with, which the updateSetting of that render
\* closes over; saving holds the saveSetting calls in flight.

\* lines 8-15: the effect's getSettings() resolves; setSettings(s).
HookLoad ==
    /\ ui.hook.settings = <<>>
    /\ ui' = [ui EXCEPT !.hook.settings =
                 << routed(uid, idb, fsdb, "getSettings", "settings", 0) >>]
    /\ UNCHANGED <<dbvars, setCalls, transitions, ai>>

\* React renders the component again after a state change: the handlers of
\* the new render see the new state.
Render ==
    /\ ui.hook.seen # ui.hook.settings
    /\ ui' = [ui EXCEPT !.hook.seen = ui.hook.settings]
    /\ UNCHANGED <<dbvars, setCalls, transitions, ai>>

\* lines 17-21: updateSetting(key, value) of the current render, up to its
\* await: nothing while settings is null; else setSettings of the copy of
\* the rendered settings with the key replaced, and saveSetting is called (the
\* router picks the adapter as it is called).
UpdateSetting ==
    /\ ui.hook.seen # <<>>
    /\ ops < MaxOps
    /\ \E key \in SettingKeys : \E value \in SettingInputs[key] :
         ui' = [ui EXCEPT !.hook.settings = << [ui.hook.seen[1] EXCEPT ![key] = value] >>,
                          !.hook.saving = Append(@, [route |-> db_route(uid), key |-> key,
                                                     value |-> value])]
    /\ ops' = ops + 1
    /\ UNCHANGED <<uid, idb, fsdb, now, req, res, mg, uploads, user, loading, setCalls, transitions, ai>>

\* line 21: one saveSetting in flight completes its write.
SaveSettled ==
    \E i \in 1..Len(ui.hook.saving) :
        LET w == ui.hook.saving[i] IN
        /\ IF w.route.be = "idb"
           THEN idb' = idb_saveSetting(idb, w.key, w.value).db /\ fsdb' = fsdb
           ELSE fsdb' = fs_saveSetting(fsdb, w.route.ns, w.key, w.value).db /\ idb' = idb
        /\ ui' = [ui EXCEPT !.hook.saving = Drop(@, i)]
        /\ UNCHANGED <<uid, now, req, res, mg, uploads, user, loading, ops, setCalls, transitions, ai>>

\* The settings page as mounted: a guest on a fresh install, with a favourite
\* or with an API key saved; identity A, session restored, with settings in
\* the cloud or without.
InitSettings ==
    \/ \E db \in {EmptyIdb, LocalOneFav, idb_saveSetting(EmptyIdb, "apiKey", "key").db} :
         Guest(db)
    \/ \E cl \in {CloudOneMeal, fs_saveSetting(CloudOneMeal, "A", "dailyCalories", 1800).db} :
         SessionRestored("A", cl)

NextSettings ==
    \/ HookLoad
    \/ Render
    \/ UpdateSetting
    \/ SaveSettled

\* The hook and the store; no saveSetting fails.
SpecSettings == InitSettings /\ [][NextSettings]_vars

----------------------------------------------------------------------------
\* Properties.

\* A step in which the routed request in flight settles (either way).
Settles == req # NoReq /\ req' = NoReq

\* C1: a routed entity operation (every operation but resetAllData) called
\* while _uid is a uid U reads or writes U's cloud namespace only; called while
\* _uid is null, the local store only.
C1_ScopedToIdentity ==
    [][ (Settles /\ req.op # "resetAllData") =>
          IF req.issuedAs # NoUser
          THEN /\ res'.touched = {Cloud(req.issuedAs)}
               /\ idb' = idb
               /\ \A v \in Uids \ {req.issuedAs} : fsdb'[v] = fsdb[v]
          ELSE /\ res'.touched = {Local}
               /\ fsdb' = fsdb ]_vars

\* C1 witness: an add called under uid A has settled and its record is in A's namespace.
C1_Witness ==
    /\ res.op = "add"
    /\ res.issuedAs = "A"
    /\ res.status = "ok"
    /\ res.touched = {Cloud("A")}
    /\ req = NoReq
    /\ DOMAIN fsdb["A"].weights # {}

\* C2 as stated: no routed operation, resetAllData included, reaches both backends.
C2_NeverBothBackends ==
    [][ Settles => /\ Cardinality(res'.touched) = 1
                   /\ (idb' = idb \/ fsdb' = fsdb) ]_vars

\* C2 amended: every routed operation other than resetAllData reaches exactly
\* one backend; resetAllData reaches the local store alone when _uid is null,
\* and both the local store and the identity's namespace when _uid is a uid.
C2_OneBackendExceptReset ==
    [][ Settles =>
          IF req.op = "resetAllData" /\ req.issuedAs # NoUser
          THEN /\ res'.touched = {Local, Cloud(req.issuedAs)}
               /\ idb' = idb_resetAllData(idb).db
               /\ res'.status = "ok" => fsdb' = fs_resetAllData(fsdb, req.issuedAs).db
          ELSE /\ Cardinality(res'.touched) = 1
               /\ (idb' = idb \/ fsdb' = fsdb) ]_vars

\* C2 witness: a resetAllData called while signed in has settled, having
\* reached both stores.
C2_Witness ==
    /\ res.op = "resetAllData"
    /\ res.issuedAs \in Uids
    /\ res.status = "ok"
    /\ res.touched = {Local, Cloud(res.issuedAs)}

Count(store) == Cardinality(DOMAIN store)

\* C3 as stated: once a run of the migration has copied the local data to an
\* identity, a later run for that identity leaves the cloud namespace as it
\* is: none of its uploads changes the cloud store, whatever the local
\* database holds.
C3_SecondRunChangesNothing ==
    [][ (/\ mg.pc = "await"
         /\ mg.uid \in mg.migrated
         /\ \E i \in 1..Len(uploads) : uploads[i].live /\ uploads' = Drop(uploads, i))
        => fsdb' = fsdb ]_vars

\* C4 as stated: when the existence check found no meal and every upload
\* succeeded, each cloud collection holds, besides what it held, one record per
\* local record read, with that record's fields.
C4_OneRecordPerLocalRecord ==
    (mg.pc = "done" /\ mg.result = "completed") =>
        \A col \in Cols :
            /\ Count(fsdb[mg.uid][col]) = Count(mg.before[col]) + Count(mg.snap[col])
            /\ \A k \in DOMAIN mg.snap[col] :
                 \E id \in DOMAIN fsdb[mg.uid][col] :
                     Rest(fsdb[mg.uid][col][id]) = Rest(mg.snap[col][k])

\* The collection a routed request reads or writes, before and after a step.
Target(r, db, cl) == IF r.be = "idb" THEN db[r.col] ELSE cl[r.ns][r.col]

\* C5 as stated: every add that succeeds, through either adapter, stores its
\* record under a key not yet in the collection: the collection grows by one.
C5_AddGrowsByOne ==
    [][ (Settles /\ req.op = "add" /\ res'.status = "ok") =>
          Count(Target(req, idb', fsdb')) = Count(Target(req, idb, fsdb)) + 1 ]_vars

\* C6: no step of the migration (nor of the callback around it) changes the
\* local database, whether the run is skipped, completes or fails part-way.
C6_LocalStoreUntouched ==
    [][ (mg' # mg \/ uploads' # uploads) => idb' = idb ]_vars

\* C6 witness: a run failed part-way, and the local favourite it read is
\* still in the local database.
C6_Witness ==
    /\ mg.pc = "done"
    /\ mg.result = "caught"
    /\ DOMAIN mg.snap.favourites # {}
    /\ idb = mg.snap

\* C7: when an upload the migration awaits fails, the routine returns normally
\* (it does not reject); what was written stays written and nothing else is
\* written anywhere (no rollback, no marker); no upload is started again.
C7_FailureIsSwallowed ==
    [][ (mg.result # "caught" /\ mg'.result = "caught") =>
          /\ mg'.pc = "done"
          /\ fsdb' = fsdb
          /\ idb' = idb
          /\ Len(uploads') = Len(uploads) - 1
          /\ \A i \in 1..Len(uploads') : ~uploads'[i].live ]_vars

\* C7 witness: a run failed after one of its uploads had written a favourite,
\* which is still in the cloud namespace.
C7_Witness ==
    /\ mg.pc = "done"
    /\ mg.result = "caught"
    /\ DOMAIN mg.before.favourites = {}
    /\ DOMAIN fsdb[mg.uid].favourites # {}

\* C8 as stated: after a migration in which every upload succeeded, a settings
\* key that was never saved locally has the value the existence check's
\* namespace had for it.
C8_UnsavedKeysKeepCloudValue ==
    (mg.pc = "done" /\ mg.result = "completed") =>
        \A k \in SettingKeys \ DOMAIN mg.snap.settings :
            fs_settingsOf(fsdb, mg.uid)[k]
              = fs_settingsOf([fsdb EXCEPT ![mg.uid] = mg.before], mg.uid)[k]

SettingsOf(r, db, cl) == IF r.be = "idb" THEN idb_settingsOf(db) ELSE fs_settingsOf(cl, r.ns)

\* C9: in both adapters, getSettings right after a completed saveSetting(k, v)
\* returns v for k and for every other key what getSettings returned before
\* (the default when the key was never set).
C9_SaveSettingMerges ==
    [][ (Settles /\ req.op = "saveSetting" /\ res'.status = "ok") =>
          LET before == SettingsOf(req, idb, fsdb)
              after == SettingsOf(req, idb', fsdb')
              stored == IF req.be = "idb" THEN DOMAIN idb.settings
                        ELSE DOMAIN fsdb[req.ns].settings.data
          IN /\ after[req.col] = req.arg
             /\ \A k \in SettingKeys \ {req.col} :
                  /\ after[k] = before[k]
                  /\ k \notin stored => after[k] = DEFAULT_SETTINGS[k] ]_vars

\* C9 witness: saveSetting('apiKey', 'key') has completed in A's namespace,
\* whose dailyCalories keeps its earlier non-default value.
C9_Witness ==
    /\ res.op = "saveSetting"
    /\ res.col = "apiKey"
    /\ res.status = "ok"
    /\ res.issuedAs = "A"
    /\ fs_settingsOf(fsdb, "A") = [apiKey |-> "key", dailyCalories |-> 1800]

NamesUnique(store) ==
    \A j, k \in DOMAIN store : store[j].name = store[k].name => j = k

\* C10: in the local database no two favourites and no two recipes share a
\* name, and an add of a favourite or recipe whose name is already there fails
\* with ConstraintError and changes nothing.
C10_LocalNamesUnique ==
    /\ [](NamesUnique(idb.favourites) /\ NamesUnique(idb.recipes))
    /\ [][ (Settles /\ req.op = "add" /\ req.be = "idb" /\ req.col \in Named
              /\ \E k \in DOMAIN idb[req.col] : idb[req.col][k].name = req.arg.name) =>
             (res'.status = "ConstraintError" /\ idb' = idb) ]_vars

\* C10 witness: adding a second favourite named like the stored one has
\* failed with ConstraintError.
C10_Witness ==
    /\ res.op = "add"
    /\ res.col = "favourites"
    /\ res.status = "ConstraintError"
    /\ res.touched = {Local}
    /\ Count(idb.favourites) = 1

SameName(store, name) == { k \in DOMAIN store : store[k].name = name }

\* C11 as stated: an addFavourite or addRecipe through the cloud adapter whose
\* name is already in the identity's namespace, when it completes, leaves the
\* records that had the name and one more with it.
C11_DuplicateNameLeavesTwo ==
    [][ (/\ Settles /\ req.op = "add" /\ req.be = "fs" /\ req.col \in Named
         /\ res'.status = "ok"
         /\ SameName(fsdb[req.ns][req.col], req.arg.name) # {})
        => Cardinality(SameName(fsdb'[req.ns][req.col], req.arg.name))
             = Cardinality(SameName(fsdb[req.ns][req.col], req.arg.name)) + 1 ]_vars

\* What getMealsByDate returns from the backend a request was routed to.
MealsOn(r, db, cl, date) ==
    IF r.be = "idb" THEN idb_getMealsByDate(db, date).value
    ELSE fs_getMealsByDate(cl, r.ns, date).value

\* C12: in both adapters, once addMeal(m) has completed, getMealsByDate(m.date)
\* returns records of that date only, one of them with m's date, timestamp,
\* content, totalCalories and parsed list.
C12_MealRoundTrip ==
    [][ (Settles /\ req.op = "add" /\ req.col = "meals" /\ res'.status = "ok") =>
          LET got == MealsOn(req, idb', fsdb', req.arg.date) IN
          /\ \E i \in 1..Len(got) : Rest(got[i]) = req.arg
          /\ \A i \in 1..Len(got) : got[i].date = req.arg.date ]_vars

\* C12 witness: addMeal of the meal with a parsed entry has completed in B's
\* namespace and getMealsByDate returns it.
C12_Witness ==
    /\ res.op = "add"
    /\ res.col = "meals"
    /\ res.status = "ok"
    /\ res.issuedAs = "B"
    /\ \E i \in 1..Len(fs_getMealsByDate(fsdb, "B", "d1").value) :
           Rest(fs_getMealsByDate(fsdb, "B", "d1").value[i]) = Meal1

\* C13: in both adapters a delete raises no error because its key is missing;
\* it removes the record at the key and nothing else, in no collection, so on
\* a missing key it changes nothing, and applying it again changes nothing.
C13_DeleteIdempotent ==
    [][ (Settles /\ req.op = "delete") =>
          IF req.be = "idb"
          THEN /\ res'.status = "ok"
               /\ idb' = [idb EXCEPT ![req.col] = Remove(@, req.arg)]
               /\ fsdb' = fsdb
               /\ req.arg \notin DOMAIN idb[req.col] => idb' = idb
               /\ idb_delete(idb', req.col, req.arg) = Ret(idb', "ok", 0)
          ELSE /\ fs_delete(fsdb, req.ns, req.col, req.arg).status = "ok"
               /\ idb' = idb
               /\ res'.status = "ok" =>
                    /\ fsdb' = [fsdb EXCEPT ![req.ns][req.col] = Remove(@, req.arg)]
                    /\ req.arg \notin DOMAIN fsdb[req.ns][req.col] => fsdb' = fsdb
                    /\ fs_delete(fsdb', req.ns, req.col, req.arg) = Ret(fsdb', "ok", 0)
               /\ res'.status # "ok" => fsdb' = fsdb ]_vars

\* C13 witness: a delete of a favourite key that is not in the local database
\* has completed, and the stored favourite is still there.
C13_Witness ==
    /\ res.op = "delete"
    /\ res.col = "favourites"
    /\ res.status = "ok"
    /\ res.touched = {Local}
    /\ idb = LocalOneFav

\* C14 as stated: an update at an existing key leaves exactly the record given
\* there; at a key that does not exist, an update through the cloud adapter
\* fails and creates nothing, and one through the local adapter inserts the
\* record (when no other record holds its name).
C14_UpdateAsymmetry ==
    [][ (Settles /\ req.op = "update") =>
          LET key == req.arg.id IN
          IF req.be = "fs"
          THEN IF key \in DOMAIN fsdb[req.ns][req.col]
               THEN res'.status = "ok" => fsdb'[req.ns][req.col][key] = req.arg
               ELSE res'.status # "ok" /\ fsdb' = fsdb
          ELSE ~byNameConflict(idb, req.col, req.arg, key) =>
                 /\ res'.status = "ok"
                 /\ key \in DOMAIN idb'[req.col]
                 /\ idb'[req.col][key] = req.arg ]_vars

\* C15 as stated: a record created in guest mode (a record of the local
\* database) has a copy in the cloud namespace of at most one identity.  Read
\* under SpecMigration, where only the migration writes to the cloud store.
C15_GuestRecordInOneNamespace ==
    \A col \in Cols : \A k \in DOMAIN idb[col] :
        Cardinality({ u \in Uids :
            \E id \in DOMAIN fsdb[u][col] :
                Rest(fsdb[u][col][id]) = Rest(idb[col][k]) }) <= 1

\* C16 as stated: setCurrentUser is called once for each auth state change
\* delivered (sign-in completed, sign-out completed, session restored at
\* start) and never otherwise: the two counts agree.
C16_OneCallPerTransition == setCalls = transitions

\* The API key getSettings() returns in the current state.
StoredKey == routed(uid, idb, fsdb, "getSettings", "settings", 0).apiKey

\* C17: while the stored API key is empty no entry point of the parser issues
\* a network request, and a call that returns returns the configuration error
\* (processInput, whatever the input) or no result (getMealSuggestion,
\* getSmartObservations).
C17_NoKeyNoRequest ==
    StoredKey = "" =>
        /\ ai.requests = 0
        /\ ai.pc # "fetch"
        /\ (ai.pc = "done" /\ ai.result.type # "rejected") =>
             IF ai.fn = "processInput"
             THEN ai.result.type = "error" /\ ai.result.message = <<"No API key set.">>
             ELSE ai.result.type = "null"

\* C17 witness: processInput has returned the configuration error to a guest
\* with no key stored, with no request made.
C17_Witness ==
    /\ uid = NoUser
    /\ StoredKey = ""
    /\ ai.fn = "processInput"
    /\ ai.pc = "done"
    /\ ai.result = ConfigError
    /\ ai.requests = 0

\* What is left of a completion without fences and white space.
Kept(text) == SelectSeq(text, LAMBDA c : c \notin {Fence, FenceJson, " ", "\n"})
ValidJson(text) == Len(Kept(text)) = 1 /\ Kept(text)[1] \in DocNames
TypeOf(text) ==
    LET doc == Docs[Kept(text)[1]] IN
    IF doc.kind = "object" /\ "type" \in DOMAIN doc.fields /\ Len(doc.fields.type.s) = 1
    THEN doc.fields.type.s[1] ELSE "none"

\* C18: a processInput call that reached the network made exactly one request
\* (none is made again), and when the answer was a non-success status, a
\* completion that is not valid JSON once the fences are stripped, or JSON
\* whose type is not one the parser dispatches on, it returned the generic
\* error result.
C18_BadAnswerIsGenericError ==
    /\ ai.requests <= 1
    /\ (ai.fn = "processInput" /\ ai.pc = "done" /\ ai.response # NoResponse) =>
         /\ ai.requests = 1
         /\ (\/ ai.response.net = "reject"
             \/ ~ai.response.ok
             \/ ~ValidJson(ai.response.text)
             \/ TypeOf(ai.response.text) \notin Recognised)
            => (ai.result.type = "error" /\ ai.result.message = <<"Something went wrong.">>)

\* C18 witness: processInput has returned the generic error for a completion
\* of the unrecognised type recipe_log, after one request.
C18_Witness ==
    /\ ai.fn = "processInput"
    /\ ai.pc = "done"
    /\ ai.response.ok
    /\ ai.response.text = <<"recipeLogDoc">>
    /\ ai.result = GenericError
    /\ ai.requests = 1

Macros == {"calories", "protein", "fat", "carbs", "fiber"}
AllDigits(text) == text # <<>> /\ \A i \in 1..Len(text) : IsDigit(text[i])
NoNumber(v) ==
    \/ v.t \in {"undefined", "null", "boolean"}
    \/ /\ v.t = "string"
       /\ LET text == TrimLeft(v.s) IN
            text = <<>> \/ (~IsDigit(text[1]) /\ text[1] \notin {"-", "+"})

\* C19: for a completion of type meal the result is a meal whose macro fields
\* are all integers: the value of a string of digits, 0 for a missing, null or
\* non-numeric value; for a completion of type weight the result is a weight,
\* 0 when the value is non-numeric.  Neither is ever an error.
C19_MacrosCoerced ==
    (/\ ai.fn = "processInput" /\ ai.pc = "done" /\ ai.response.net = "ok" /\ ai.response.ok
     /\ ValidJson(ai.response.text)) =>
        LET fields == Docs[Kept(ai.response.text)[1]].fields IN
        /\ TypeOf(ai.response.text) = "meal" =>
             /\ ai.result.type = "meal"
             /\ \A f \in Macros :
                  /\ ai.result[f] \in Int
                  /\ (f \in DOMAIN fields /\ fields[f].t = "string" /\ AllDigits(fields[f].s)) =>
                       ai.result[f] = Decimal(fields[f].s, 0)
                  /\ (f \notin DOMAIN fields \/ NoNumber(Get(fields, f))) => ai.result[f] = 0
        /\ TypeOf(ai.response.text) = "weight" =>
             /\ ai.result.type = "weight"
             /\ NoNumber(Get(fields, "weight")) => ai.result.weight = <<"0">>

\* C19 witness: the meal returned for the completion with calories "250", a
\* null protein, no fat, carbs "abc" and fiber 2.7.
C19_Witness ==
    /\ ai.fn = "processInput"
    /\ ai.pc = "done"
    /\ ai.response.text = <<"looseMealDoc">>
    /\ ai.result.type = "meal"
    /\ ai.result.calories = 250
    /\ ai.result.protein = 0
    /\ ai.result.fat = 0
    /\ ai.result.carbs = 0
    /\ ai.result.fiber = 2
    /\ ai.result.food = ai.input

\* c is num / den rounded to the nearest whole number, halves going up.
RoundsTo(c, num, den) ==
    /\ 2 * den * c - den <= 2 * num
    /\ 2 * num < 2 * den * c + den

\* C20: logging w grams of a recipe with total weight W and totals T creates
\* a meal whose calories, protein, fat, carbs and fiber each equal
\* round(T * w / W): while the handler's addMeal is in flight, the meal being
\* added has those quantities, for the recipe and the weight of the event.
C20_RecipeLogScalesLinearly ==
    (ui.pc = "addMeal" /\ req # NoReq) =>
        LET m == req.arg.parsed[1]
            r == ui.recipe
            w == ui.weight
        IN /\ RoundsTo(m.calories, r.totalCalories * w, r.totalWeight)
           /\ RoundsTo(m.protein, r.totalProtein * w, r.totalWeight)
           /\ RoundsTo(m.fat, r.totalFat * w, r.totalWeight)
           /\ RoundsTo(m.carbs, r.totalCarbs * w, r.totalWeight)
           /\ RoundsTo(m.fiber, r.totalFiber * w, r.totalWeight)
           /\ RoundsTo(req.arg.totalCalories, r.totalCalories * w, r.totalWeight)

\* The days of the last seven on which the routed backend holds a meal.
DaysWithData ==
    { m.date : m \in { routed(uid, idb, fsdb, "getAll", "meals", 0)[i] :
                         i \in DOMAIN routed(uid, idb, fsdb, "getAll", "meals", 0) } }
      \cap Last7Dates

\* C21: getMealSuggestion with no meal logged today, and getSmartObservations
\* with fewer than three distinct days with logged meals in the last seven,
\* return no result and issue no request to the AI endpoint.
C21_ThresholdOnDistinctDays ==
    LET short == \/ /\ ai.fn = "getMealSuggestion"
                    /\ Today \notin DaysWithData
                 \/ /\ ai.fn = "getSmartObservations"
                    /\ Cardinality(DaysWithData) < 3
    IN short =>
         /\ ai.requests = 0
         /\ ai.pc # "fetch"
         /\ (ai.pc = "done" /\ ai.result.type # "rejected") => ai.result.type = "null"

\* C22: processInput never fails with an unhandled fault: whatever the input
\* and whichever collaborator fails (settings read, meals read, network call,
\* JSON.parse), a call that has finished has resolved with one tagged result
\* of the closed intent set, a failure being an error result.
C22_ProcessInputAlwaysResolves ==
    (ai.fn = "processInput" /\ ai.pc = "done") =>
        ai.result.type \in {"meal", "chat", "favourite_save", "favourite_log", "weight", "error"}

\* C23: callers do not depend on the order in which the adapter returns
\* today's meals: the meal the favourite-save intent saves has the greatest
\* timestamp of today's meals, and the today list of the home page is
\* newest-first by timestamp.
C23_CallersIndependentOfOrder ==
    /\ ui.pc = "addFavourite" =>
         \A i \in DOMAIN ui.todayMeals : ui.todayMeals[i].timestamp <= ui.meal.timestamp
    /\ \A i, j \in DOMAIN HomeList(ui.todayMeals) :
         i < j => HomeList(ui.todayMeals)[i].timestamp >= HomeList(ui.todayMeals)[j].timestamp

RECURSIVE SumCalories(_)
\* The sum of the calories of parsed entries.
SumCalories(parsed) ==
    IF parsed = <<>> THEN 0 ELSE Head(parsed).calories + SumCalories(Tail(parsed))

\* P holds of every meal record of either store.
EveryStoredMeal(P(_)) ==
    /\ \A k \in DOMAIN idb.meals : P(idb.meals[k])
    /\ \A u \in Uids : \A k \in DOMAIN fsdb[u].meals : P(fsdb[u].meals[k])

\* C24: in every reachable state every meal record of either store, written
\* by useMeals.addMeal (typed meals, favourites, recipes) or rewritten by
\* EditMealModal.handleSave, has totalCalories equal to the sum of the
\* calories of its parsed entries.
C24_TotalIsSumOfParsed ==
    EveryStoredMeal(LAMBDA m : m.totalCalories = SumCalories(m.parsed))

\* C24 witness: handleSave has rewritten a stored meal with a fresh parse, and
\* the record is in the routed backend with the new entry and its calories.
C24_Witness ==
    /\ ui.handler = "edit"
    /\ ui.outcome = "done"
    /\ ui.intent = "meal"
    /\ ui.mealData.calories # SumCalories(ui.meal.parsed)
    /\ ~EveryStoredMeal(LAMBDA m : ~(/\ m.id = ui.meal.id
                                     /\ m.content = ui.text
                                     /\ m.totalCalories = ui.mealData.calories))

\* C25: in every reachable state where AuthContext exposes loading = false,
\* the router identity equals the uid of the exposed user, and is absent when
\* the exposed user is null.
C25_RouterAgreesWithExposedUser == (loading = FALSE) => uid = user


\* C26 as stated: when a second run of the migration for an identity starts
\* after the first passed its existence check and before its uploads
\* finished, each local record is still in the cloud at most once.
C26_EachLocalRecordAtMostOnce ==
    \A k \in DOMAIN idb.meals :
        Cardinality({id \in DOMAIN fsdb["A"].meals :
                        Rest(fsdb["A"].meals[id]) = Rest(idb.meals[k])}) <= 1

\* C28 as stated: when a second auth event was delivered while an earlier
\* sign-in callback awaited the migration, then once both callbacks have
\* finished the exposed user is the user of the latest event, which is the
\* router's identity.
C28_LatestEventWins ==
    (mg.pc = "idle" /\ mg.other.pc = "idle" /\ transitions = 2) => user = uid


\* C27 as stated: after an auth event for a user, whose callback starts with
\* the migration's existence check, the callback in the end has published
\* that user and set loading to false, also when the check or an upload
\* fails.
C27_CallbackPublishes ==
    (mg.pc = "check") ~> (mg.pc = "idle" /\ user = mg.uid /\ loading = FALSE)


\* C29 as stated: a handleSend that has set isProcessing to true sets it
\* back to false in the end, whatever intent processInput returns and also
\* when a storage operation it awaits fails.
C29_SendEndsProcessing ==
    (ui.handler = "send" /\ ui.isProcessing) ~> (ui.isProcessing = FALSE)


\* C30 as stated: once every updateSetting call made has completed, the
\* settings held in the hook's state are the settings getSettings returns
\* from the store.
C30_HookEqualsStore ==
    (ui.hook.settings # <<>> /\ ui.hook.saving = <<>>) =>
        ui.hook.settings[1] = routed(uid, idb, fsdb, "getSettings", "settings", 0)

====
